---- MODULE Spec2Model ----
(***************************************************************************)
(* Pulumi policy packs of dirien-ai-workshop-policies.                     *)
(*                                                                         *)
(* A run validates the resources of one stack against one policy pack.     *)
(* Every policy is a validateResource handler wrapped in                   *)
(* validateResourceOfType; the handler calls reportViolation zero or more  *)
(* times.  The handlers are modelled as operators that return the sequence *)
(* of messages they report, in call order.                                 *)
(*                                                                         *)
(* JavaScript values:                                                      *)
(*   - a string that the code inspects (image, chart, repo, instanceType)  *)
(*     is a sequence of one-character strings, so that includes,           *)
(*     startsWith and endsWith are computed character by character;        *)
(*   - a string that is only compared or interpolated (capability,         *)
(*     container name, Service type) is a TLA+ string;                     *)
(*   - an optional property is <<>> when undefined and <<v>> when set.     *)
(***************************************************************************)
EXTENDS Integers, Sequences, FiniteSets, TLC

VARIABLES
    pack,     \* the policy pack of the run
    stack,    \* the resources of the program, in declaration order
    pending,  \* indices of the resources not validated yet
    results,  \* per resource, the violations reported for it
    report,   \* every violation reported so far, in report order
    blocked,  \* whether a mandatory violation has been reported
    phase     \* "running", then "passed" or "failed"

vars == <<pack, stack, pending, results, report, blocked, phase>>

(***************************************************************************)
(* Bounds of the model.                                                    *)
(***************************************************************************)
\* longest capabilities.add list drawn from CapSample
MaxCaps == 3
\* most containers of one pod spec, over its three lists together
MaxContainers == 2
\* longest stack of example resources validated in one run
MaxRun == 2

(***************************************************************************)
(* Optional properties and JavaScript truthiness.                          *)
(***************************************************************************)
None == <<>>

Some(v) == <<v>>

Defined(o) == Len(o) > 0

Val(o) == o[1]

\* if (x) on an optional array or object: undefined is falsy, [] and {} are truthy
Truthy(o) == Defined(o)

\* if (s) on an optional string: undefined and "" are falsy
TruthyStr(o) == Defined(o) /\ Len(Val(o)) > 0

(***************************************************************************)
(* String.prototype.startsWith / endsWith / includes and                   *)
(* Array.prototype.includes.                                               *)
(***************************************************************************)
startsWith(s, p) == Len(s) >= Len(p) /\ SubSeq(s, 1, Len(p)) = p

endsWith(s, p) == Len(s) >= Len(p) /\ SubSeq(s, Len(s) - Len(p) + 1, Len(s)) = p

includes(s, p) == \E i \in 1..(Len(s) - Len(p) + 1) : SubSeq(s, i, i + Len(p) - 1) = p

arrayIncludes(arr, x) == \E i \in 1..Len(arr) : arr[i] = x

(***************************************************************************)
(* String literals of the source.                                          *)
(***************************************************************************)
COLON == <<":">>

LATEST == <<":", "l", "a", "t", "e", "s", "t">>

SLASH == <<"/">>

OCI == <<"o", "c", "i", ":", "/", "/">>

HTTP == <<"h", "t", "t", "p", ":", "/", "/">>

HTTPS == <<"h", "t", "t", "p", "s", ":", "/", "/">>

DOTSLASH == <<".", "/">>

DOTDOTSLASH == <<".", ".", "/">>

(***************************************************************************)
(* checkCapabilities                                                       *)
(***************************************************************************)
allowedCapabilities ==
    << "AUDIT_WRITE", "CHOWN", "DAC_OVERRIDE", "FOWNER", "FSETID", "KILL",
       "MKNOD", "NET_BIND_SERVICE", "SETFCAP", "SETGID", "SETPCAP",
       "SETUID", "SYS_CHROOT" >>

\* mutant of addedCapabilities: the dropped capabilities are checked with the added ones
addedCapabilities_withDrop(container) ==
    IF ~Defined(container.securityContext) THEN None
    ELSE IF ~Defined(Val(container.securityContext).capabilities) THEN None
    ELSE LET caps == Val(Val(container.securityContext).capabilities) IN
         IF ~Defined(caps.add) /\ ~Defined(caps.drop) THEN None
         ELSE Some((IF Defined(caps.add) THEN Val(caps.add) ELSE <<>>)
                   \o (IF Defined(caps.drop) THEN Val(caps.drop) ELSE <<>>))

\* container.securityContext?.capabilities?.add
addedCapabilities(container) ==
    IF ~Defined(container.securityContext) THEN None
    ELSE IF ~Defined(Val(container.securityContext).capabilities) THEN None
    ELSE Val(Val(container.securityContext).capabilities).add

CapabilityMessage(container, cap) ==
    [ text       |-> "adds capability which is not in the allowed list",
      container  |-> container.name,
      capability |-> cap,
      allowed    |-> allowedCapabilities ]

\* mutant of checkAdded: the loop ends at the first capability it reports
checkAdded_stopAtFirst(container, caps) ==
    LET bad == SelectSeq(caps, LAMBDA cap : ~arrayIncludes(allowedCapabilities, cap))
    IN  IF bad = <<>> THEN <<>> ELSE <<CapabilityMessage(container, bad[1])>>

\* mutant of checkAdded: a capability already reported for the container is not reported again
RECURSIVE checkAddedOnceFrom(_, _, _)
checkAddedOnceFrom(container, caps, seen) ==
    IF caps = <<>> THEN <<>>
    ELSE (IF ~arrayIncludes(allowedCapabilities, Head(caps)) /\ Head(caps) \notin seen
            THEN <<CapabilityMessage(container, Head(caps))>>
            ELSE <<>>)
         \o checkAddedOnceFrom(container, Tail(caps), seen \cup {Head(caps)})

checkAdded_once(container, caps) == checkAddedOnceFrom(container, caps, {})

\* the inner loop: for (const cap of addedCapabilities)
RECURSIVE checkAdded(_, _)
checkAdded(container, caps) ==
    IF caps = <<>> THEN <<>>
    ELSE (IF ~arrayIncludes(allowedCapabilities, Head(caps))
            THEN <<CapabilityMessage(container, Head(caps))>>
            ELSE <<>>)
         \o checkAdded(container, Tail(caps))

\* mutant of checkCapabilitiesLoop: the loop ends at a container without an add-list
RECURSIVE checkCapabilitiesLoop_returnOnAbsent(_)
checkCapabilitiesLoop_returnOnAbsent(containers) ==
    IF containers = <<>> THEN <<>>
    ELSE IF ~Truthy(addedCapabilities(Head(containers))) THEN <<>>
    ELSE checkAdded(Head(containers), Val(addedCapabilities(Head(containers))))
         \o checkCapabilitiesLoop_returnOnAbsent(Tail(containers))

\* the outer loop: for (const container of containers)
RECURSIVE checkCapabilitiesLoop(_)
checkCapabilitiesLoop(containers) ==
    IF containers = <<>> THEN <<>>
    ELSE (IF Truthy(addedCapabilities(Head(containers)))
            THEN checkAdded(Head(containers), Val(addedCapabilities(Head(containers))))
            ELSE <<>>)
         \o checkCapabilitiesLoop(Tail(containers))

checkCapabilities(containers) ==
    IF ~Truthy(containers) THEN <<>> ELSE checkCapabilitiesLoop(Val(containers))

(***************************************************************************)
(* checkImageTags                                                          *)
(***************************************************************************)
MissingTagMessage(container, image) ==
    [ text      |-> "uses image without a tag",
      container |-> container.name,
      image     |-> image ]

LatestTagMessage(container, image) ==
    [ text      |-> "uses image with mutable ':latest' tag",
      container |-> container.name,
      image     |-> image ]

\* mutant of checkImage: an absent or empty image is not skipped
checkImage_noSkip(container) ==
    LET image == IF Defined(container.image) THEN Val(container.image) ELSE <<>> IN
    IF ~includes(image, COLON)
        THEN <<MissingTagMessage(container, image)>>
    ELSE IF endsWith(image, LATEST)
        THEN <<LatestTagMessage(container, image)>>
    ELSE <<>>

\* mutant of checkImage: ':latest' is looked for anywhere in the image
checkImage_latestAnywhere(container) ==
    IF ~TruthyStr(container.image) THEN <<>>
    ELSE IF ~includes(Val(container.image), COLON)
        THEN <<MissingTagMessage(container, Val(container.image))>>
    ELSE IF includes(Val(container.image), LATEST)
        THEN <<LatestTagMessage(container, Val(container.image))>>
    ELSE <<>>

\* the body of the loop for one container
checkImage(container) ==
    IF ~TruthyStr(container.image) THEN <<>>
    ELSE IF ~includes(Val(container.image), COLON)
        THEN <<MissingTagMessage(container, Val(container.image))>>
    ELSE IF endsWith(Val(container.image), LATEST)
        THEN <<LatestTagMessage(container, Val(container.image))>>
    ELSE <<>>

RECURSIVE checkImageTagsLoop(_)
checkImageTagsLoop(containers) ==
    IF containers = <<>> THEN <<>>
    ELSE checkImage(Head(containers)) \o checkImageTagsLoop(Tail(containers))

checkImageTags(containers) ==
    IF ~Truthy(containers) THEN <<>> ELSE checkImageTagsLoop(Val(containers))

(***************************************************************************)
(* The validateResource handlers, one operator per policy.  Each returns   *)
(* the messages passed to reportViolation, in call order.                  *)
(***************************************************************************)
LoadBalancerMessage ==
    [ text |-> "Kubernetes Services cannot be of type LoadBalancer" ]

\* mutant of no_public_services: NodePort is rejected as well
no_public_services_alsoNodePort(svc) ==
    IF Truthy(svc.spec) /\ Val(svc.spec).type \in { Some("LoadBalancer"), Some("NodePort") }
        THEN <<LoadBalancerMessage>>
        ELSE <<>>

no_public_services(svc) ==
    IF Truthy(svc.spec) /\ Val(svc.spec).type = Some("LoadBalancer")
        THEN <<LoadBalancerMessage>>
        ELSE <<>>

\* deployment.spec?.template?.spec (also statefulset, job)
templatePodSpec(workload) ==
    IF ~Defined(workload.spec) THEN None
    ELSE IF ~Defined(Val(workload.spec).template) THEN None
    ELSE Val(Val(workload.spec).template).spec

\* mutant of checkCapabilitiesOfPodSpec: ephemeralContainers is not checked
checkCapabilitiesOfPodSpec_noEphemeral(podSpec) ==
    checkCapabilities(podSpec.containers)
    \o checkCapabilities(podSpec.initContainers)

\* the three calls made on a pod spec by every disallow-capabilities policy
checkCapabilitiesOfPodSpec(podSpec) ==
    checkCapabilities(podSpec.containers)
    \o checkCapabilities(podSpec.initContainers)
    \o checkCapabilities(podSpec.ephemeralContainers)

\* mutant of checkImageTagsOfPodSpec: initContainers is checked before containers
checkImageTagsOfPodSpec_initFirst(podSpec) ==
    checkImageTags(podSpec.initContainers)
    \o checkImageTags(podSpec.containers)
    \o checkImageTags(podSpec.ephemeralContainers)

\* the three calls made on a pod spec by every disallow-latest-tag policy
checkImageTagsOfPodSpec(podSpec) ==
    checkImageTags(podSpec.containers)
    \o checkImageTags(podSpec.initContainers)
    \o checkImageTags(podSpec.ephemeralContainers)

disallow_capabilities(pod) ==
    IF Truthy(pod.spec) THEN checkCapabilitiesOfPodSpec(Val(pod.spec)) ELSE <<>>

\* mutant of disallow_capabilities_deployment: a missing pod template spec is reported
disallow_capabilities_deployment_reportsMissing(deployment) ==
    IF Truthy(templatePodSpec(deployment))
        THEN checkCapabilitiesOfPodSpec(Val(templatePodSpec(deployment)))
        ELSE <<[ text |-> "has no pod template spec" ]>>

disallow_capabilities_deployment(deployment) ==
    IF Truthy(templatePodSpec(deployment))
        THEN checkCapabilitiesOfPodSpec(Val(templatePodSpec(deployment)))
        ELSE <<>>

disallow_capabilities_statefulset(statefulset) ==
    IF Truthy(templatePodSpec(statefulset))
        THEN checkCapabilitiesOfPodSpec(Val(templatePodSpec(statefulset)))
        ELSE <<>>

disallow_capabilities_job(job) ==
    IF Truthy(templatePodSpec(job))
        THEN checkCapabilitiesOfPodSpec(Val(templatePodSpec(job)))
        ELSE <<>>

disallow_latest_tag(pod) ==
    IF Truthy(pod.spec) THEN checkImageTagsOfPodSpec(Val(pod.spec)) ELSE <<>>

disallow_latest_tag_deployment(deployment) ==
    IF Truthy(templatePodSpec(deployment))
        THEN checkImageTagsOfPodSpec(Val(templatePodSpec(deployment)))
        ELSE <<>>

disallow_latest_tag_statefulset(statefulset) ==
    IF Truthy(templatePodSpec(statefulset))
        THEN checkImageTagsOfPodSpec(Val(templatePodSpec(statefulset)))
        ELSE <<>>

\* mutant of disallow_latest_tag_job: only the containers list of a Job is checked
disallow_latest_tag_job_containersOnly(job) ==
    IF Truthy(templatePodSpec(job))
        THEN checkImageTags(Val(templatePodSpec(job)).containers)
        ELSE <<>>

disallow_latest_tag_job(job) ==
    IF Truthy(templatePodSpec(job))
        THEN checkImageTagsOfPodSpec(Val(templatePodSpec(job)))
        ELSE <<>>

(***************************************************************************)
(* Helm policies of the kubernetes-typescript pack.                        *)
(***************************************************************************)
\* release.repositoryOpts?.repo (also chart.repositoryOpts?.repo)
repositoryRepo(resource) ==
    IF ~Defined(resource.repositoryOpts) THEN None
    ELSE Val(resource.repositoryOpts).repo

V3NonOciRepositoryMessage(release, repo) ==
    [ text    |-> "Helm v3 Release uses non-OCI repository",
      name    |-> release.name,
      repo    |-> repo ]

\* mutant of helm_v3_require_oci_registry: only http:// and https:// repos are reported
helm_v3_require_oci_registry_httpOnly(release) ==
    IF TruthyStr(repositoryRepo(release))
       /\ ~startsWith(Val(repositoryRepo(release)), OCI)
       /\ (startsWith(Val(repositoryRepo(release)), HTTP)
           \/ startsWith(Val(repositoryRepo(release)), HTTPS))
        THEN <<V3NonOciRepositoryMessage(release, Val(repositoryRepo(release)))>>
        ELSE <<>>

helm_v3_require_oci_registry(release) ==
    IF TruthyStr(repositoryRepo(release))
       /\ ~startsWith(Val(repositoryRepo(release)), OCI)
        THEN <<V3NonOciRepositoryMessage(release, Val(repositoryRepo(release)))>>
        ELSE <<>>

V4RepositoryOptsMessage(chart, repo) ==
    [ text |-> "Helm v4 Chart uses repositoryOpts.repo",
      name |-> chart.name,
      repo |-> repo ]

V4HttpsUrlMessage(chart, chartRef) ==
    [ text  |-> "Helm v4 Chart uses HTTPS URL",
      name  |-> chart.name,
      chart |-> chartRef ]

V4RepositoryReferenceMessage(chart, chartRef) ==
    [ text  |-> "Helm v4 Chart uses repository reference",
      name  |-> chart.name,
      chart |-> chartRef ]

V4WithoutOciMessage(chart, chartRef) ==
    [ text  |-> "Helm v4 Chart uses chart reference without OCI protocol",
      name  |-> chart.name,
      chart |-> chartRef ]

\* mutant of helmV4CheckRepo: the repo is reported only for a resource that has a chart
helmV4CheckRepo_needsChart(chart) ==
    IF TruthyStr(repositoryRepo(chart)) /\ TruthyStr(chart.chart)
        THEN <<V4RepositoryOptsMessage(chart, Val(repositoryRepo(chart)))>>
        ELSE <<>>

\* if (repo) { reportViolation(...) }
helmV4CheckRepo(chart) ==
    IF TruthyStr(repositoryRepo(chart))
        THEN <<V4RepositoryOptsMessage(chart, Val(repositoryRepo(chart)))>>
        ELSE <<>>

\* mutant of helmV4CheckChartRef: only https:// is taken for a URL
helmV4CheckChartRef_httpsOnly(chart) ==
    IF ~TruthyStr(chart.chart) THEN <<>>
    ELSE LET chartRef == Val(chart.chart) IN
        IF startsWith(chartRef, HTTPS)
            THEN <<V4HttpsUrlMessage(chart, chartRef)>>
        ELSE IF includes(chartRef, SLASH) /\ ~startsWith(chartRef, OCI)
                /\ ~startsWith(chartRef, DOTSLASH) /\ ~startsWith(chartRef, DOTDOTSLASH)
            THEN <<V4RepositoryReferenceMessage(chart, chartRef)>>
        ELSE IF ~startsWith(chartRef, OCI)
                /\ ~startsWith(chartRef, DOTSLASH) /\ ~startsWith(chartRef, DOTDOTSLASH)
            THEN <<V4WithoutOciMessage(chart, chartRef)>>
        ELSE <<>>

\* mutant of helmV4CheckChartRef: a chart in a parent directory is not taken as local
helmV4CheckChartRef_noParentDirectory(chart) ==
    IF ~TruthyStr(chart.chart) THEN <<>>
    ELSE LET chartRef == Val(chart.chart) IN
        IF startsWith(chartRef, HTTP) \/ startsWith(chartRef, HTTPS)
            THEN <<V4HttpsUrlMessage(chart, chartRef)>>
        ELSE IF includes(chartRef, SLASH) /\ ~startsWith(chartRef, OCI)
                /\ ~startsWith(chartRef, DOTSLASH)
            THEN <<V4RepositoryReferenceMessage(chart, chartRef)>>
        ELSE IF ~startsWith(chartRef, OCI)
                /\ ~startsWith(chartRef, DOTSLASH) /\ ~startsWith(chartRef, DOTDOTSLASH)
            THEN <<V4WithoutOciMessage(chart, chartRef)>>
        ELSE <<>>

\* mutant of helmV4CheckChartRef: the last branch is missing
helmV4CheckChartRef_noBareNameBranch(chart) ==
    IF ~TruthyStr(chart.chart) THEN <<>>
    ELSE LET chartRef == Val(chart.chart) IN
        IF startsWith(chartRef, HTTP) \/ startsWith(chartRef, HTTPS)
            THEN <<V4HttpsUrlMessage(chart, chartRef)>>
        ELSE IF includes(chartRef, SLASH) /\ ~startsWith(chartRef, OCI)
                /\ ~startsWith(chartRef, DOTSLASH) /\ ~startsWith(chartRef, DOTDOTSLASH)
            THEN <<V4RepositoryReferenceMessage(chart, chartRef)>>
        ELSE <<>>

\* mutant of helmV4CheckChartRef: the repo/chart branch is missing
helmV4CheckChartRef_noReferenceBranch(chart) ==
    IF ~TruthyStr(chart.chart) THEN <<>>
    ELSE LET chartRef == Val(chart.chart) IN
        IF startsWith(chartRef, HTTP) \/ startsWith(chartRef, HTTPS)
            THEN <<V4HttpsUrlMessage(chart, chartRef)>>
        ELSE IF ~startsWith(chartRef, OCI)
                /\ ~startsWith(chartRef, DOTSLASH) /\ ~startsWith(chartRef, DOTDOTSLASH)
            THEN <<V4WithoutOciMessage(chart, chartRef)>>
        ELSE <<>>

\* if (chartRef) { if ... else if ... else if ... }
helmV4CheckChartRef(chart) ==
    IF ~TruthyStr(chart.chart) THEN <<>>
    ELSE LET chartRef == Val(chart.chart) IN
        IF startsWith(chartRef, HTTP) \/ startsWith(chartRef, HTTPS)
            THEN <<V4HttpsUrlMessage(chart, chartRef)>>
        ELSE IF includes(chartRef, SLASH) /\ ~startsWith(chartRef, OCI)
                /\ ~startsWith(chartRef, DOTSLASH) /\ ~startsWith(chartRef, DOTDOTSLASH)
            THEN <<V4RepositoryReferenceMessage(chart, chartRef)>>
        ELSE IF ~startsWith(chartRef, OCI)
                /\ ~startsWith(chartRef, DOTSLASH) /\ ~startsWith(chartRef, DOTDOTSLASH)
            THEN <<V4WithoutOciMessage(chart, chartRef)>>
        ELSE <<>>

\* mutant of helm_v4_require_oci_registry: the handler returns after the repo violation
helm_v4_require_oci_registry_firstMatchWins(chart) ==
    IF helmV4CheckRepo(chart) # <<>> THEN helmV4CheckRepo(chart) ELSE helmV4CheckChartRef(chart)

helm_v4_require_oci_registry(chart) ==
    helmV4CheckRepo(chart) \o helmV4CheckChartRef(chart)

(***************************************************************************)
(* Helm policies of the acme-compliance-policies pack: validateOciHelmChart *)
(***************************************************************************)
HttpChartMessage(chart) ==
    [ text  |-> "Helm chart uses an HTTP/HTTPS URL",
      chart |-> chart ]

NonOciRepoMessage(chart, repo) ==
    [ text  |-> "Helm chart uses a non-OCI repository",
      chart |-> chart,
      repo  |-> repo ]

\* repositoryOpts?.repo && !repo.startsWith("oci://") && (http:// || https://)
hasNonOciRepo(repositoryOpts) ==
    /\ Defined(repositoryOpts)
    /\ TruthyStr(Val(repositoryOpts).repo)
    /\ ~startsWith(Val(Val(repositoryOpts).repo), OCI)
    /\ \/ startsWith(Val(Val(repositoryOpts).repo), HTTP)
       \/ startsWith(Val(Val(repositoryOpts).repo), HTTPS)

\* mutant of validateOciHelmChart: no return after the HTTP/HTTPS chart violation
validateOciHelmChart_noReturn(chart, repositoryOpts) ==
    IF ~TruthyStr(chart) THEN <<>>
    ELSE (IF startsWith(Val(chart), HTTP) \/ startsWith(Val(chart), HTTPS)
            THEN <<HttpChartMessage(Val(chart))>>
            ELSE <<>>)
         \o (IF hasNonOciRepo(repositoryOpts)
               THEN <<NonOciRepoMessage(Val(chart), Val(Val(repositoryOpts).repo))>>
               ELSE <<>>)

validateOciHelmChart(chart, repositoryOpts) ==
    IF ~TruthyStr(chart) THEN <<>>
    ELSE IF startsWith(Val(chart), HTTP) \/ startsWith(Val(chart), HTTPS)
        THEN <<HttpChartMessage(Val(chart))>>
    ELSE IF hasNonOciRepo(repositoryOpts)
        THEN <<NonOciRepoMessage(Val(chart), Val(Val(repositoryOpts).repo))>>
    ELSE <<>>

require_oci_helm_charts_v3(release) ==
    validateOciHelmChart(release.chart, release.repositoryOpts)

require_oci_helm_charts_v4(chart) ==
    validateOciHelmChart(chart.chart, chart.repositoryOpts)

(***************************************************************************)
(* disallow-gpu-instance-types                                             *)
(***************************************************************************)
disallowedPrefixes == << <<"g">>, <<"p">> >>

GpuInstanceMessage(instanceType) ==
    [ text         |-> "GPU and high-performance instance types are not permitted",
      instanceType |-> instanceType ]

\* mutant of checkPrefixes: only the first prefix is tested
checkPrefixes_firstOnly(instanceType, prefixes) ==
    IF prefixes # <<>> /\ startsWith(instanceType, Head(prefixes))
        THEN <<GpuInstanceMessage(instanceType)>>
        ELSE <<>>

\* for (const prefix of disallowedPrefixes) { if (...) { report; return; } }
RECURSIVE checkPrefixes(_, _)
checkPrefixes(instanceType, prefixes) ==
    IF prefixes = <<>> THEN <<>>
    ELSE IF startsWith(instanceType, Head(prefixes))
        THEN <<GpuInstanceMessage(instanceType)>>
    ELSE checkPrefixes(instanceType, Tail(prefixes))

disallow_gpu_instance_types(instance) ==
    IF ~TruthyStr(instance.instanceType) THEN <<>>
    ELSE checkPrefixes(Val(instance.instanceType), disallowedPrefixes)

(***************************************************************************)
(* The policy packs: new PolicyPack(name, {policies: [...]}).              *)
(* A policy is its name, its enforcementLevel and the resource type given  *)
(* to validateResourceOfType.                                              *)
(***************************************************************************)
Policy(name, level, type) ==
    [ name |-> name, enforcementLevel |-> level, type |-> type ]

\* mutant of ContainerAndServicePolicies: disallow-latest-tag-job is registered as mandatory
ContainerAndServicePolicies_mandatoryTagJob ==
    << Policy("no-public-services", "mandatory", "Service"),
       Policy("disallow-capabilities", "advisory", "Pod"),
       Policy("disallow-capabilities-deployment", "advisory", "Deployment"),
       Policy("disallow-capabilities-statefulset", "advisory", "StatefulSet"),
       Policy("disallow-capabilities-job", "advisory", "Job"),
       Policy("disallow-latest-tag", "advisory", "Pod"),
       Policy("disallow-latest-tag-deployment", "advisory", "Deployment"),
       Policy("disallow-latest-tag-statefulset", "advisory", "StatefulSet"),
       Policy("disallow-latest-tag-job", "mandatory", "Job") >>

\* the nine policies every pack registers, in registration order
ContainerAndServicePolicies ==
    << Policy("no-public-services", "mandatory", "Service"),
       Policy("disallow-capabilities", "advisory", "Pod"),
       Policy("disallow-capabilities-deployment", "advisory", "Deployment"),
       Policy("disallow-capabilities-statefulset", "advisory", "StatefulSet"),
       Policy("disallow-capabilities-job", "advisory", "Job"),
       Policy("disallow-latest-tag", "advisory", "Pod"),
       Policy("disallow-latest-tag-deployment", "advisory", "Deployment"),
       Policy("disallow-latest-tag-statefulset", "advisory", "StatefulSet"),
       Policy("disallow-latest-tag-job", "advisory", "Job") >>

\* PolicyPack("kubernetes-typescript") with the helm-v3/v4-require-oci-registry policies
HelmRegistryPack ==
    ContainerAndServicePolicies
    \o << Policy("helm-v3-require-oci-registry", "mandatory", "helm.v3.Release"),
          Policy("helm-v4-require-oci-registry", "mandatory", "helm.v4.Chart") >>

\* PolicyPack("acme-compliance-policies") with the require-oci-helm-charts policies
OciChartsPack ==
    ContainerAndServicePolicies
    \o << Policy("require-oci-helm-charts-v3", "mandatory", "helm.v3.Release"),
          Policy("require-oci-helm-charts-v4", "mandatory", "helm.v4.Chart") >>

\* PolicyPack("acme-compliance-policies") with the disallow-gpu-instance-types policy
GpuPack ==
    << Policy("disallow-gpu-instance-types", "mandatory", "aws.ec2.Instance") >>
    \o ContainerAndServicePolicies

PackNames == {"helm-registry", "oci-charts", "gpu"}

policies(p) ==
    CASE p = "helm-registry" -> HelmRegistryPack
      [] p = "oci-charts"    -> OciChartsPack
      [] p = "gpu"           -> GpuPack

\* the handler registered under a policy name, applied to a resource of its type
validateResource(name, resource) ==
    CASE name = "no-public-services"                -> no_public_services(resource)
      [] name = "disallow-capabilities"             -> disallow_capabilities(resource)
      [] name = "disallow-capabilities-deployment"  -> disallow_capabilities_deployment(resource)
      [] name = "disallow-capabilities-statefulset" -> disallow_capabilities_statefulset(resource)
      [] name = "disallow-capabilities-job"         -> disallow_capabilities_job(resource)
      [] name = "disallow-latest-tag"               -> disallow_latest_tag(resource)
      [] name = "disallow-latest-tag-deployment"    -> disallow_latest_tag_deployment(resource)
      [] name = "disallow-latest-tag-statefulset"   -> disallow_latest_tag_statefulset(resource)
      [] name = "disallow-latest-tag-job"           -> disallow_latest_tag_job(resource)
      [] name = "helm-v3-require-oci-registry"      -> helm_v3_require_oci_registry(resource)
      [] name = "helm-v4-require-oci-registry"      -> helm_v4_require_oci_registry(resource)
      [] name = "require-oci-helm-charts-v3"        -> require_oci_helm_charts_v3(resource)
      [] name = "require-oci-helm-charts-v4"        -> require_oci_helm_charts_v4(resource)
      [] name = "disallow-gpu-instance-types"       -> disallow_gpu_instance_types(resource)

\* mutant of validateResourceOfType: a chart handler runs on both Helm resource types
validateResourceOfType_anyHelmType(policy, resource) ==
    IF \/ resource.kind = policy.type
       \/ { resource.kind, policy.type } = { "helm.v3.Release", "helm.v4.Chart" }
        THEN validateResource(policy.name, resource)
        ELSE <<>>

\* validateResourceOfType(Type, handler): the handler runs only on resources of Type
validateResourceOfType(policy, resource) ==
    IF resource.kind = policy.type THEN validateResource(policy.name, resource) ELSE <<>>

\* a reported message becomes a violation of the policy, at the policy's level
Violation(policy, message) ==
    [ policy |-> policy.name, enforcementLevel |-> policy.enforcementLevel, message |-> message ]

PolicyViolations(policy, resource) ==
    LET messages == validateResourceOfType(policy, resource)
    IN  [ i \in 1..Len(messages) |-> Violation(policy, messages[i]) ]

\* every policy of the pack, in registration order, on one resource
RECURSIVE EvaluateFrom(_, _)
EvaluateFrom(ps, resource) ==
    IF ps = <<>> THEN <<>>
    ELSE PolicyViolations(Head(ps), resource) \o EvaluateFrom(Tail(ps), resource)

Evaluate(p, resource) == EvaluateFrom(policies(p), resource)

(***************************************************************************)
(* The resources a stack may declare (the inputs of the model).            *)
(***************************************************************************)
SeqsUpTo(S, n) == UNION { [1..k -> S] : k \in 0..n }

AllowedNames ==
    { "AUDIT_WRITE", "CHOWN", "DAC_OVERRIDE", "FOWNER", "FSETID", "KILL", "MKNOD",
      "NET_BIND_SERVICE", "SETFCAP", "SETGID", "SETPCAP", "SETUID", "SYS_CHROOT" }

OtherNames == { "NET_ADMIN", "SYS_ADMIN", "SYS_TIME", "ALL", "chown", "CAP_CHOWN" }

CapSample == { "CHOWN", "SYS_CHROOT", "NET_ADMIN", "ALL" }

\* every name once, and every list over CapSample up to MaxCaps entries
AddLists ==
    { <<c>> : c \in AllowedNames \cup OtherNames } \cup SeqsUpTo(CapSample, MaxCaps)

CapabilitiesValues ==
    { [ add |-> a, drop |-> None ] : a \in {None} \cup { Some(l) : l \in AddLists } }
    \cup { [ add |-> a, drop |-> Some(<<"ALL", "NET_ADMIN">>) ] :
             a \in { None, Some(<<>>), Some(<<"CHOWN">>), Some(<<"NET_ADMIN">>) } }

SecurityContexts ==
    { None, Some([ capabilities |-> None ]) }
    \cup { Some([ capabilities |-> Some(c) ]) : c \in CapabilitiesValues }

NGINX == <<"n", "g", "i", "n", "x">>

REGISTRY_NGINX == <<"r", "e", "g", ":", "5", "0", "0", "0", "/">> \o NGINX

TAG_1_25 == <<":", "1", ".", "2", "5">>

DIGEST == <<"@", "s", "h", "a", "2", "5", "6", ":", "a", "b">>

ImageRepos == { <<>>, NGINX, REGISTRY_NGINX }

ImageTags == { <<>>, LATEST, TAG_1_25, LATEST \o <<"x">>, COLON, DIGEST }

Images == { r \o t : r \in ImageRepos, t \in ImageTags }

ImageValues == {None} \cup { Some(i) : i \in Images }

Container(name, image, securityContext) ==
    [ name |-> name, image |-> image, securityContext |-> securityContext ]

PodSpec(containers, initContainers, ephemeralContainers) ==
    [ containers          |-> containers,
      initContainers      |-> initContainers,
      ephemeralContainers |-> ephemeralContainers ]

\* one container, every security context
CapabilityPodSpecs ==
    { PodSpec(Some(<<Container("app", Some(NGINX \o TAG_1_25), sc)>>), None, None) :
        sc \in SecurityContexts }

\* one container, every image
ImagePodSpecs ==
    { PodSpec(Some(<<Container("app", i, None)>>), None, None) : i \in ImageValues }

SampleContainers ==
    { Container("web", Some(NGINX \o LATEST),
                Some([ capabilities |-> Some([ add |-> Some(<<"NET_ADMIN", "CHOWN", "SYS_TIME">>),
                                               drop |-> None ]) ])),
      Container("init", Some(NGINX),
                Some([ capabilities |-> Some([ add |-> Some(<<"SYS_ADMIN">>),
                                               drop |-> None ]) ])),
      Container("debug", None, None) }

ContainerLists == {None} \cup { Some(l) : l \in SeqsUpTo(SampleContainers, MaxContainers) }

ListLen(l) == IF Defined(l) THEN Len(Val(l)) ELSE 0

\* every arrangement of at most MaxContainers sample containers over the three lists
StructurePodSpecs ==
    { ps \in [ containers : ContainerLists, initContainers : ContainerLists,
               ephemeralContainers : ContainerLists ] :
        ListLen(ps.containers) + ListLen(ps.initContainers)
            + ListLen(ps.ephemeralContainers) <= MaxContainers }

\* a container whose image is the empty string, alone, before and after another container
SidecarLists ==
    LET sidecar == Container("sidecar", Some(<<>>), None)
        web     == CHOOSE c \in SampleContainers : c.name = "web"
    IN  { <<sidecar>>, <<sidecar, web>>, <<web, sidecar>> }

SidecarPodSpecs ==
    { PodSpec(Some(l), None, None) : l \in SidecarLists }
    \cup { PodSpec(None, Some(l), None) : l \in SidecarLists }
    \cup { PodSpec(None, None, Some(l)) : l \in SidecarLists }

PodSpecs == CapabilityPodSpecs \cup ImagePodSpecs \cup StructurePodSpecs \cup SidecarPodSpecs

Pods == { [ kind |-> "Pod", spec |-> s ] : s \in {None} \cup { Some(ps) : ps \in PodSpecs } }

ControllerKinds == { "Deployment", "StatefulSet", "Job" }

ControllerSpecs ==
    { None, Some([ template |-> None ]), Some([ template |-> Some([ spec |-> None ]) ]) }
    \cup { Some([ template |-> Some([ spec |-> Some(ps) ]) ]) : ps \in PodSpecs }

Controllers == { [ kind |-> k, spec |-> s ] : k \in ControllerKinds, s \in ControllerSpecs }

ServiceTypes == { "LoadBalancer", "ClusterIP", "NodePort", "ExternalName", "loadbalancer" }

Services ==
    { [ kind |-> "Service", spec |-> s ] :
        s \in {None} \cup { Some([ type |-> t ]) : t \in {None} \cup { Some(x) : x \in ServiceTypes } } }

FTP == <<"f", "t", "p", ":", "/", "/">>

BITNAMI_NGINX == <<"b", "i", "t", "n", "a", "m", "i", "/">> \o NGINX

ChartRefs ==
    { p \o b : p \in { <<>>, OCI, HTTP, HTTPS, DOTSLASH, DOTDOTSLASH, SLASH, FTP },
               b \in { <<>>, NGINX, BITNAMI_NGINX } }

ChartValues == {None} \cup { Some(c) : c \in ChartRefs }

Repos == { p \o b : p \in { <<>>, OCI, HTTP, HTTPS, FTP }, b \in { <<>>, <<"r">> } }

RepositoryOptsValues ==
    { None, Some([ repo |-> None ]) } \cup { Some([ repo |-> Some(r) ]) : r \in Repos }

HelmKinds == { "helm.v3.Release", "helm.v4.Chart" }

HelmResources ==
    { [ kind |-> k, name |-> "nginx", chart |-> c, repositoryOpts |-> o ] :
        k \in HelmKinds, c \in ChartValues, o \in RepositoryOptsValues }

InstanceTypes ==
    { <<>>, <<"g", "4", "d", "n">>, <<"p", "3">>, <<"g">>, <<"t", "3">>, <<"m", "5">>,
      <<"t", "4", "g">>, <<"G", "5">> }

Instances ==
    { [ kind |-> "aws.ec2.Instance", instanceType |-> t ] :
        t \in {None} \cup { Some(x) : x \in InstanceTypes } }

\* a resource type no policy is registered for
OtherResources == { [ kind |-> "ConfigMap" ] }

Resources == Pods \cup Controllers \cup Services \cup HelmResources \cup Instances \cup OtherResources

\* resources after the examples of example-violations.ts, and a compliant Service
ExampleResources ==
    { [ kind |-> "Service", spec |-> Some([ type |-> Some("LoadBalancer") ]) ],
      [ kind |-> "Service", spec |-> Some([ type |-> Some("ClusterIP") ]) ],
      [ kind |-> "Pod",
        spec |-> Some(PodSpec(Some(<<Container("web", Some(NGINX \o LATEST),
                    Some([ capabilities |-> Some([ add |-> Some(<<"NET_ADMIN", "CHOWN", "SYS_TIME">>),
                                                   drop |-> None ]) ]))>>), None, None)) ],
      [ kind |-> "helm.v3.Release", name |-> "nginx", chart |-> Some(NGINX),
        repositoryOpts |-> Some([ repo |-> Some(HTTPS \o <<"r">>) ]) ],
      [ kind |-> "aws.ec2.Instance", instanceType |-> Some(<<"g", "4", "d", "n">>) ] }

\* a run validates one resource of Resources, or up to MaxRun example resources
Stacks ==
    { <<r>> : r \in Resources }
    \cup { s \in SeqsUpTo(ExampleResources, MaxRun) : Len(s) # 1 }

(***************************************************************************)
(* The run: the engine validates every resource of the stack against the   *)
(* pack, reports every violation, and blocks the deployment when a         *)
(* violation is mandatory.                                                 *)
(***************************************************************************)
\* mutant of Blocks: the verdict follows the resource validated last
Blocks_lastResourceOnly(b, violations) ==
    \E k \in 1..Len(violations) : violations[k].enforcementLevel = "mandatory"

\* mutant of Blocks: any violation blocks, advisory included
Blocks_onAnyViolation(b, violations) == b \/ violations # <<>>

RECURSIVE Blocks(_, _)
Blocks(b, violations) ==
    IF violations = <<>> THEN b
    ELSE Blocks(b \/ Head(violations).enforcementLevel = "mandatory", Tail(violations))

Init ==
    /\ pack \in PackNames
    /\ stack \in Stacks
    /\ pending = 1..Len(stack)
    /\ results = [ i \in 1..Len(stack) |-> <<>> ]
    /\ report = <<>>
    /\ blocked = FALSE
    /\ phase = "running"

\* mutant of Validate: a violation already in the report is not reported again
Validate_reportsOnce(i) ==
    /\ phase = "running"
    /\ i \in pending
    /\ LET violations == SelectSeq(Evaluate(pack, stack[i]),
                                   LAMBDA v : \A k \in 1..Len(report) : report[k] # v)
       IN  /\ results' = [ results EXCEPT ![i] = violations ]
           /\ report' = report \o violations
           /\ blocked' = Blocks(blocked, violations)
    /\ pending' = pending \ {i}
    /\ UNCHANGED <<pack, stack, phase>>

\* mutant of Validate: once the run is blocked, later resources are not evaluated
Validate_skipsOnceBlocked(i) ==
    /\ phase = "running"
    /\ i \in pending
    /\ LET violations == IF blocked THEN <<>> ELSE Evaluate(pack, stack[i])
       IN  /\ results' = [ results EXCEPT ![i] = violations ]
           /\ report' = report \o violations
           /\ blocked' = Blocks(blocked, violations)
    /\ pending' = pending \ {i}
    /\ UNCHANGED <<pack, stack, phase>>

\* mutant of Validate: the validated resource is stripped to its kind
Validate_stripsResource(i) ==
    /\ phase = "running"
    /\ i \in pending
    /\ LET violations == Evaluate(pack, stack[i])
       IN  /\ results' = [ results EXCEPT ![i] = violations ]
           /\ report' = report \o violations
           /\ blocked' = Blocks(blocked, violations)
    /\ pending' = pending \ {i}
    /\ stack' = [ stack EXCEPT ![i] = [ kind |-> stack[i].kind ] ]
    /\ UNCHANGED <<pack, phase>>

Validate(i) ==
    /\ phase = "running"
    /\ i \in pending
    /\ LET violations == Evaluate(pack, stack[i])
       IN  /\ results' = [ results EXCEPT ![i] = violations ]
           /\ report' = report \o violations
           /\ blocked' = Blocks(blocked, violations)
    /\ pending' = pending \ {i}
    /\ UNCHANGED <<pack, stack, phase>>

Finish ==
    /\ phase = "running"
    /\ pending = {}
    /\ phase' = IF blocked THEN "failed" ELSE "passed"
    /\ UNCHANGED <<pack, stack, pending, results, report, blocked>>

Next == (\E i \in 1..Len(stack) : Validate(i)) \/ Finish

Spec == Init /\ [][Next]_vars

(***************************************************************************)
(* The evaluation of one resource, loop iteration by loop iteration.       *)
(* The loops of the handlers are for...of loops over an array of the       *)
(* resource (containers, addedCapabilities) or over disallowedPrefixes.    *)
(* Iterations lists the iterations a resource calls for, in program order; *)
(* pending holds the indices of the iterations still to run, results[1]    *)
(* the violations reported so far.                                         *)
(***************************************************************************)
Iteration(loop, policy, container, item) ==
    [ loop |-> loop, policy |-> policy, container |-> container, item |-> item ]

\* for (const container of containers) with, inside, for (const cap of addedCapabilities)
RECURSIVE CapabilityIterationsLoop(_, _)
CapabilityIterationsLoop(policy, containers) ==
    IF containers = <<>> THEN <<>>
    ELSE LET container == Head(containers)
             added     == addedCapabilities(container)
         IN  <<Iteration("container", policy, container, "")>>
             \o (IF Truthy(added)
                   THEN [ k \in 1..Len(Val(added)) |->
                            Iteration("capability", policy, container, Val(added)[k]) ]
                   ELSE <<>>)
             \o CapabilityIterationsLoop(policy, Tail(containers))

CapabilityIterations(policy, containers) ==
    IF ~Truthy(containers) THEN <<>> ELSE CapabilityIterationsLoop(policy, Val(containers))

\* for (const container of containers) of checkImageTags
ImageIterations(policy, containers) ==
    IF ~Truthy(containers) THEN <<>>
    ELSE [ k \in 1..Len(Val(containers)) |-> Iteration("image", policy, Val(containers)[k], "") ]

\* for (const prefix of disallowedPrefixes)
PrefixIterations(policy, instanceType) ==
    [ k \in 1..Len(disallowedPrefixes) |->
        Iteration("prefix", policy, instanceType, disallowedPrefixes[k]) ]

CapabilityPolicies ==
    { "disallow-capabilities", "disallow-capabilities-deployment",
      "disallow-capabilities-statefulset", "disallow-capabilities-job" }

TagPolicies ==
    { "disallow-latest-tag", "disallow-latest-tag-deployment",
      "disallow-latest-tag-statefulset", "disallow-latest-tag-job" }

\* the pod spec a workload handler reaches: pod.spec, or spec?.template?.spec
handlerPodSpec(resource) ==
    IF resource.kind = "Pod" THEN resource.spec ELSE templatePodSpec(resource)

\* the iterations of one policy's handler on a resource
PolicyIterations(policy, resource) ==
    IF resource.kind # policy.type THEN <<>>
    ELSE IF policy.name \in CapabilityPolicies THEN
        IF ~Truthy(handlerPodSpec(resource)) THEN <<>>
        ELSE CapabilityIterations(policy, Val(handlerPodSpec(resource)).containers)
             \o CapabilityIterations(policy, Val(handlerPodSpec(resource)).initContainers)
             \o CapabilityIterations(policy, Val(handlerPodSpec(resource)).ephemeralContainers)
    ELSE IF policy.name \in TagPolicies THEN
        IF ~Truthy(handlerPodSpec(resource)) THEN <<>>
        ELSE ImageIterations(policy, Val(handlerPodSpec(resource)).containers)
             \o ImageIterations(policy, Val(handlerPodSpec(resource)).initContainers)
             \o ImageIterations(policy, Val(handlerPodSpec(resource)).ephemeralContainers)
    ELSE IF policy.name = "disallow-gpu-instance-types" THEN
        IF ~TruthyStr(resource.instanceType) THEN <<>>
        ELSE PrefixIterations(policy, Val(resource.instanceType))
    ELSE <<>>

RECURSIVE IterationsFrom(_, _)
IterationsFrom(ps, resource) ==
    IF ps = <<>> THEN <<>>
    ELSE PolicyIterations(Head(ps), resource) \o IterationsFrom(Tail(ps), resource)

Iterations(p, resource) == IterationsFrom(policies(p), resource)

\* what the body of one iteration reports
IterationMessages(it) ==
    CASE it.loop = "container"  -> <<>>
      [] it.loop = "capability" ->
            IF ~arrayIncludes(allowedCapabilities, it.item)
                THEN <<CapabilityMessage(it.container, it.item)>>
                ELSE <<>>
      [] it.loop = "image"      -> checkImage(it.container)
      [] it.loop = "prefix"     ->
            IF startsWith(it.container, it.item)
                THEN <<GpuInstanceMessage(it.container)>>
                ELSE <<>>

\* container lists of the step-by-step evaluation: absent, one container, two containers
LoopContainerLists ==
    { None,
      Some(<<CHOOSE c \in SampleContainers : c.name = "web">>),
      Some(<<CHOOSE c \in SampleContainers : c.name = "debug",
             CHOOSE c \in SampleContainers : c.name = "init">>) }

LoopPodSpecs ==
    { PodSpec(a, b, c) : a \in LoopContainerLists, b \in LoopContainerLists,
                         c \in LoopContainerLists }

\* resources whose handlers have a loop: Pods, Jobs and compute instances
LoopResources ==
    { [ kind |-> "Pod", spec |-> s ] : s \in {None} \cup { Some(ps) : ps \in LoopPodSpecs } }
    \cup { [ kind |-> "Job",
              spec |-> Some([ template |-> Some([ spec |-> Some(PodSpec(l, l, l)) ]) ]) ] :
             l \in LoopContainerLists }
    \cup Instances

LoopInit ==
    /\ pack \in PackNames
    /\ stack \in { <<r>> : r \in LoopResources }
    /\ pending = 1..Len(Iterations(pack, stack[1]))
    /\ results = << <<>> >>
    /\ report = <<>>
    /\ blocked = FALSE
    /\ phase = "running"

\* mutant of Iterate: the loop over addedCapabilities does not move on after an allowed name
Iterate_staysOnAllowed ==
    /\ phase = "running"
    /\ pending # {}
    /\ LET n          == CHOOSE x \in pending : \A y \in pending : x <= y
           it         == Iterations(pack, stack[1])[n]
           messages   == IterationMessages(it)
           violations == [ k \in 1..Len(messages) |-> Violation(it.policy, messages[k]) ]
       IN  /\ results' = [ results EXCEPT ![1] = @ \o violations ]
           /\ report' = report \o violations
           /\ blocked' = Blocks(blocked, violations)
           /\ pending' =
                IF it.loop = "prefix" /\ messages # <<>>
                    THEN { m \in pending : Iterations(pack, stack[1])[m].policy # it.policy }
                ELSE IF it.loop = "capability" /\ messages = <<>> THEN pending
                ELSE pending \ {n}
    /\ UNCHANGED <<pack, stack, phase>>

\* one iteration: the first pending one runs; a return inside the loop ends the handler
Iterate ==
    /\ phase = "running"
    /\ pending # {}
    /\ LET n          == CHOOSE x \in pending : \A y \in pending : x <= y
           it         == Iterations(pack, stack[1])[n]
           messages   == IterationMessages(it)
           violations == [ k \in 1..Len(messages) |-> Violation(it.policy, messages[k]) ]
       IN  /\ results' = [ results EXCEPT ![1] = @ \o violations ]
           /\ report' = report \o violations
           /\ blocked' = Blocks(blocked, violations)
           /\ pending' =
                IF it.loop = "prefix" /\ messages # <<>>
                    THEN { m \in pending : Iterations(pack, stack[1])[m].policy # it.policy }
                    ELSE pending \ {n}
    /\ UNCHANGED <<pack, stack, phase>>

LoopNext == Iterate \/ Finish

LoopSpec == LoopInit /\ [][LoopNext]_vars

\* a handler is a synchronous function: while it can take its next step, it does
LoopFairSpec == LoopSpec /\ WF_vars(LoopNext)

(***************************************************************************)
(* Vocabulary of the properties.  These operators read a resource directly *)
(* and do not use the handlers above.                                      *)
(***************************************************************************)
Validated == { i \in 1..Len(stack) : i \notin pending }

Count(seq, P(_)) == Cardinality({ k \in 1..Len(seq) : P(seq[k]) })

HasPrefix(s, p) == Len(s) >= Len(p) /\ \A k \in 1..Len(p) : s[k] = p[k]

HasSuffix(s, p) == Len(s) >= Len(p) /\ \A k \in 1..Len(p) : s[Len(s) - Len(p) + k] = p[k]

HasChar(s, c) == \E k \in 1..Len(s) : s[k] = c

Occurs(list, x) == \E k \in 1..Len(list) : list[k] = x

WorkloadKinds == { "Pod", "Deployment", "StatefulSet", "Job" }

OrEmpty(list) == IF list = <<>> THEN <<>> ELSE list[1]

\* the pod spec of a workload as a sequence of zero or one pod specs
PodSpecOf(r) ==
    IF r.kind = "Pod" THEN r.spec
    ELSE IF r.spec = <<>> THEN <<>>
    ELSE IF r.spec[1].template = <<>> THEN <<>>
    ELSE r.spec[1].template[1].spec

\* every container of a workload: containers, initContainers, ephemeralContainers
ContainersOf(r) ==
    IF PodSpecOf(r) = <<>> THEN <<>>
    ELSE OrEmpty(PodSpecOf(r)[1].containers)
         \o OrEmpty(PodSpecOf(r)[1].initContainers)
         \o OrEmpty(PodSpecOf(r)[1].ephemeralContainers)

AddListOf(c) ==
    IF c.securityContext = <<>> THEN <<>>
    ELSE IF c.securityContext[1].capabilities = <<>> THEN <<>>
    ELSE OrEmpty(c.securityContext[1].capabilities[1].add)

Offending(c) == Count(AddListOf(c), LAMBDA cap : cap \notin AllowedNames)

RECURSIVE OffendingEntries(_)
OffendingEntries(containers) ==
    IF containers = <<>> THEN 0
    ELSE Offending(Head(containers)) + OffendingEntries(Tail(containers))

IsCapabilityViolation(v) ==
    v.message.text = "adds capability which is not in the allowed list"

IsMissingTag(v) == v.message.text = "uses image without a tag"

IsLatestTag(v) == v.message.text = "uses image with mutable ':latest' tag"

ImageOf(c) == OrEmpty(c.image)

(***************************************************************************)
(* C1: the number of capability violations reported for a workload equals  *)
(* the number of capabilities.add entries, over all its containers, that   *)
(* are not one of the 13 allow-listed names; each reported capability is   *)
(* such an entry, and nothing is reported when every entry is allow-listed.*)
(***************************************************************************)
C1_OneViolationPerOffendingCapability ==
    \A i \in Validated :
        stack[i].kind \in WorkloadKinds =>
            /\ Count(results[i], IsCapabilityViolation)
                 = OffendingEntries(ContainersOf(stack[i]))
            /\ \A k \in 1..Len(results[i]) :
                 IsCapabilityViolation(results[i][k]) =>
                    /\ results[i][k].message.capability \notin AllowedNames
                    /\ \E c \in { ContainersOf(stack[i])[n] : n \in 1..Len(ContainersOf(stack[i])) } :
                         /\ c.name = results[i][k].message.container
                         /\ Occurs(AddListOf(c), results[i][k].message.capability)

\* a validated workload whose add-list mixes two offending entries with an allowed one
C1_Witness ==
    \E i \in Validated :
        /\ stack[i].kind = "Deployment"
        /\ Len(ContainersOf(stack[i])) = 1
        /\ AddListOf(ContainersOf(stack[i])[1]) = <<"NET_ADMIN", "CHOWN", "ALL">>
        /\ Count(results[i], IsCapabilityViolation) = 2

RECURSIVE TotalViolations(_)
TotalViolations(indices) ==
    IF indices = {} THEN 0
    ELSE LET i == CHOOSE x \in indices : TRUE
         IN  Len(results[i]) + TotalViolations(indices \ {i})

C3_FailsIffMandatoryViolation ==
    /\ phase \in { "passed", "failed" } =>
         (phase = "failed" <=> \E k \in 1..Len(report) : report[k].enforcementLevel = "mandatory")
    /\ Len(report) = TotalViolations(Validated)
    /\ \A i \in Validated : \A k \in 1..Len(results[i]) :
         \E n \in 1..Len(report) : report[n] = results[i][k]

\* a failed run whose report still holds an advisory violation
C3_Witness ==
    /\ phase = "failed"
    /\ \E k \in 1..Len(report) : report[k].enforcementLevel = "advisory"
    /\ \E k \in 1..Len(report) : report[k].enforcementLevel = "mandatory"

(***************************************************************************)
(* C4: a validated Service receives exactly one violation, mandatory and   *)
(* from no-public-services, when its spec is present with type             *)
(* "LoadBalancer", and no violation in every other case (another type, no  *)
(* type, no spec).                                                         *)
(***************************************************************************)
IsLoadBalancer(svc) == svc.spec # <<>> /\ svc.spec[1].type = <<"LoadBalancer">>

C4_LoadBalancerOnly ==
    \A i \in Validated :
        stack[i].kind = "Service" =>
            IF IsLoadBalancer(stack[i])
                THEN /\ Len(results[i]) = 1
                     /\ results[i][1].policy = "no-public-services"
                     /\ results[i][1].enforcementLevel = "mandatory"
                ELSE results[i] = <<>>

\* a LoadBalancer Service was reported, in a stack that also holds a ClusterIP Service
C4_Witness ==
    \E i, j \in Validated :
        /\ stack[i].kind = "Service" /\ IsLoadBalancer(stack[i]) /\ Len(results[i]) = 1
        /\ stack[j].kind = "Service" /\ stack[j].spec # <<>>
        /\ stack[j].spec[1].type = <<"ClusterIP">> /\ results[j] = <<>>

(***************************************************************************)
(* C5: every violation of a Pod, Deployment, StatefulSet or Job is         *)
(* advisory; every violation of a Service, a Helm v3 release, a Helm v4    *)
(* chart or a compute instance is mandatory; a finished run whose stack    *)
(* holds only workloads has passed.                                        *)
(***************************************************************************)
BlockingKinds == { "Service", "helm.v3.Release", "helm.v4.Chart", "aws.ec2.Instance" }

C5_LevelFixedPerRule ==
    /\ \A i \in Validated : \A k \in 1..Len(results[i]) :
         /\ stack[i].kind \in WorkloadKinds => results[i][k].enforcementLevel = "advisory"
         /\ stack[i].kind \in BlockingKinds => results[i][k].enforcementLevel = "mandatory"
    /\ ( /\ phase # "running"
         /\ \A i \in 1..Len(stack) : stack[i].kind \in WorkloadKinds ) => phase = "passed"

\* a run of two offending Pods that passed with three advisory violations of each
C5_Witness ==
    /\ phase = "passed"
    /\ Len(stack) = 2
    /\ \A i \in 1..Len(stack) : stack[i].kind = "Pod" /\ Len(results[i]) = 3
    /\ Len(report) = 6

(***************************************************************************)
(* C6: a validated Deployment, StatefulSet or Job that lacks spec,         *)
(* spec.template or spec.template.spec receives no violation.              *)
(***************************************************************************)
LacksPodTemplateSpec(r) ==
    \/ r.spec = <<>>
    \/ r.spec[1].template = <<>>
    \/ r.spec[1].template[1].spec = <<>>

C6_AbsentTemplatePathIsNoOp ==
    \A i \in Validated :
        (stack[i].kind \in ControllerKinds /\ LacksPodTemplateSpec(stack[i])) =>
            results[i] = <<>>

\* a Job whose template has no spec was validated, and the run finished
C6_Witness ==
    /\ phase = "passed"
    /\ \E i \in Validated :
         /\ stack[i].kind = "Job"
         /\ stack[i].spec # <<>>
         /\ stack[i].spec[1].template # <<>>
         /\ stack[i].spec[1].template[1].spec = <<>>
         /\ results[i] = <<>>

(***************************************************************************)
(* Vocabulary of the chart properties.                                     *)
(***************************************************************************)
ChartOf(r) == OrEmpty(r.chart)

\* repositoryOpts.repo as a string; <<>> when repositoryOpts or repo is absent
RepoOf(r) == IF r.repositoryOpts = <<>> THEN <<>> ELSE OrEmpty(r.repositoryOpts[1].repo)

RepoPresent(r) == r.repositoryOpts # <<>> /\ r.repositoryOpts[1].repo # <<>>

IsHttpRef(s) == HasPrefix(s, HTTP) \/ HasPrefix(s, HTTPS)

IsOciOrLocalRef(s) == HasPrefix(s, OCI) \/ HasPrefix(s, DOTSLASH) \/ HasPrefix(s, DOTDOTSLASH)

HelmPacks == { "helm-registry", "oci-charts" }

IsDirectUrl(v) ==
    v.message.text \in { "Helm v4 Chart uses HTTPS URL", "Helm chart uses an HTTP/HTTPS URL" }

IsRepositoryOpts(v) == v.message.text = "Helm v4 Chart uses repositoryOpts.repo"

IsNonOciRepository(v) ==
    v.message.text \in { "Helm v3 Release uses non-OCI repository",
                         "Helm chart uses a non-OCI repository" }

IsRepositoryReference(v) == v.message.text = "Helm v4 Chart uses repository reference"

IsWithoutOci(v) == v.message.text = "Helm v4 Chart uses chart reference without OCI protocol"

(***************************************************************************)
(* C7: under every pack that registers chart rules, a validated Helm v3    *)
(* release or Helm v4 chart without repositoryOpts whose chart starts with *)
(* http:// or https:// receives exactly one violation, the 'direct URL'    *)
(* one.  helm-v3-require-oci-registry never reads the chart and reports    *)
(* nothing.                                                                *)
(***************************************************************************)
C7_DirectUrlUnderBothRules ==
    \A i \in Validated :
        ( /\ pack \in HelmPacks
          /\ stack[i].kind \in HelmKinds
          /\ stack[i].repositoryOpts = <<>>
          /\ IsHttpRef(ChartOf(stack[i])) ) =>
            /\ Len(results[i]) = 1
            /\ IsDirectUrl(results[i][1])

(***************************************************************************)
(* C8 as claimed: under helm-v4-require-oci-registry, a chart with         *)
(* repositoryOpts.repo present and a chart reference that does not start   *)
(* with http:// or https:// receives exactly one violation, the            *)
(* 'repositoryOpts' one.                                                   *)
(***************************************************************************)
C8_Original_ExactlyOneRepositoryOptsViolation ==
    \A i \in Validated :
        ( /\ pack = "helm-registry"
          /\ stack[i].kind = "helm.v4.Chart"
          /\ RepoPresent(stack[i])
          /\ ~IsHttpRef(ChartOf(stack[i])) ) =>
            /\ Len(results[i]) = 1
            /\ IsRepositoryOpts(results[i][1])

(***************************************************************************)
(* C8 as amended: under helm-v4-require-oci-registry, a chart with a       *)
(* non-empty repositoryOpts.repo and a chart reference that does not start *)
(* with http:// or https:// receives the 'repositoryOpts' violation first  *)
(* and once; it is the only violation when the chart reference is absent,  *)
(* empty or starts with oci://, ./ or ../, and otherwise one chart         *)
(* reference violation follows it.                                         *)
(***************************************************************************)
C8_RepositoryOptsFirstThenChartRef ==
    \A i \in Validated :
        ( /\ pack = "helm-registry"
          /\ stack[i].kind = "helm.v4.Chart"
          /\ RepoOf(stack[i]) # <<>>
          /\ ~IsHttpRef(ChartOf(stack[i])) ) =>
            /\ Len(results[i]) >= 1
            /\ IsRepositoryOpts(results[i][1])
            /\ Count(results[i], IsRepositoryOpts) = 1
            /\ IF ChartOf(stack[i]) = <<>> \/ IsOciOrLocalRef(ChartOf(stack[i]))
                 THEN Len(results[i]) = 1
                 ELSE /\ Len(results[i]) = 2
                      /\ IsRepositoryReference(results[i][2]) \/ IsWithoutOci(results[i][2])

\* the chart {chart: "nginx", repo: "https://r"} was validated and received two violations
C8_Witness ==
    \E i \in Validated :
        /\ pack = "helm-registry"
        /\ stack[i].kind = "helm.v4.Chart"
        /\ ChartOf(stack[i]) = NGINX
        /\ RepoOf(stack[i]) = HTTPS \o <<"r">>
        /\ Len(results[i]) = 2
        /\ IsRepositoryOpts(results[i][1])
        /\ IsWithoutOci(results[i][2])

(***************************************************************************)
(* C9 as claimed: under the Helm v3 rule of either pack, a release whose   *)
(* chart does not start with http:// or https:// receives a 'non-OCI       *)
(* repository' violation exactly when repositoryOpts.repo is present, does *)
(* not start with oci:// and starts with http:// or https://; then it is   *)
(* the only violation, and otherwise there is none.                        *)
(***************************************************************************)
IsHttpRepo(r) == RepoOf(r) # <<>> /\ ~HasPrefix(RepoOf(r), OCI) /\ IsHttpRef(RepoOf(r))

C9_Original_NonOciOnlyForHttpRepo ==
    \A i \in Validated :
        ( /\ pack \in HelmPacks
          /\ stack[i].kind = "helm.v3.Release"
          /\ ~IsHttpRef(ChartOf(stack[i])) ) =>
            IF IsHttpRepo(stack[i])
                THEN Len(results[i]) = 1 /\ IsNonOciRepository(results[i][1])
                ELSE results[i] = <<>>

(***************************************************************************)
(* C9 as amended: helm-v3-require-oci-registry reports one 'non-OCI        *)
(* repository' violation exactly when repositoryOpts.repo is a non-empty   *)
(* string that does not start with oci:// (ftp:// and scheme-less repos    *)
(* included), whatever the chart; require-oci-helm-charts-v3 reports one   *)
(* exactly when the chart is non-empty and does not start with http:// or  *)
(* https:// and the repo starts with http:// or https://.  Otherwise a     *)
(* release whose chart does not start with http:// or https:// receives    *)
(* no violation.                                                           *)
(***************************************************************************)
C9_NonOciRepositoryPerRule ==
    \A i \in Validated :
        ( /\ pack \in HelmPacks
          /\ stack[i].kind = "helm.v3.Release"
          /\ ~IsHttpRef(ChartOf(stack[i])) ) =>
            LET reported ==
                    IF pack = "helm-registry"
                        THEN RepoOf(stack[i]) # <<>> /\ ~HasPrefix(RepoOf(stack[i]), OCI)
                        ELSE ChartOf(stack[i]) # <<>> /\ IsHttpRepo(stack[i])
            IN  IF reported
                    THEN /\ Len(results[i]) = 1
                         /\ IsNonOciRepository(results[i][1])
                         /\ results[i][1].message.repo = RepoOf(stack[i])
                    ELSE results[i] = <<>>

\* helm-v3-require-oci-registry reported the release {chart: "nginx", repo: "ftp://r"}
C9_Witness ==
    \E i \in Validated :
        /\ pack = "helm-registry"
        /\ stack[i].kind = "helm.v3.Release"
        /\ ChartOf(stack[i]) = NGINX
        /\ RepoOf(stack[i]) = FTP \o <<"r">>
        /\ Len(results[i]) = 1
        /\ IsNonOciRepository(results[i][1])

(***************************************************************************)
(* C10: under helm-v4-require-oci-registry, a chart without repositoryOpts *)
(* whose chart reference contains '/' and starts with none of oci://, ./,  *)
(* ../, http://, https:// receives exactly one violation, the 'repository  *)
(* reference' one.                                                         *)
(***************************************************************************)
C10_RepositoryReference ==
    \A i \in Validated :
        ( /\ pack = "helm-registry"
          /\ stack[i].kind = "helm.v4.Chart"
          /\ stack[i].repositoryOpts = <<>>
          /\ HasChar(ChartOf(stack[i]), "/")
          /\ ~IsOciOrLocalRef(ChartOf(stack[i]))
          /\ ~IsHttpRef(ChartOf(stack[i])) ) =>
            /\ Len(results[i]) = 1
            /\ IsRepositoryReference(results[i][1])
            /\ results[i][1].message.chart = ChartOf(stack[i])

\* the chart "bitnami/nginx" was validated and received the repository reference violation
C10_Witness ==
    \E i \in Validated :
        /\ pack = "helm-registry"
        /\ stack[i].kind = "helm.v4.Chart"
        /\ stack[i].repositoryOpts = <<>>
        /\ ChartOf(stack[i]) = BITNAMI_NGINX
        /\ Len(results[i]) = 1
        /\ IsRepositoryReference(results[i][1])

(***************************************************************************)
(* C11: under every pack that registers chart rules, a validated Helm v3   *)
(* release or Helm v4 chart whose chart reference starts with oci://, ./   *)
(* or ../ and that has no repositoryOpts.repo receives no violation.       *)
(***************************************************************************)
C11_OciAndLocalChartsPass ==
    \A i \in Validated :
        ( /\ pack \in HelmPacks
          /\ stack[i].kind \in HelmKinds
          /\ IsOciOrLocalRef(ChartOf(stack[i]))
          /\ ~RepoPresent(stack[i]) ) =>
            results[i] = <<>>

\* a v4 chart from a parent directory, without repositoryOpts, passed the registry rules
C11_Witness ==
    /\ pack = "helm-registry"
    /\ phase = "passed"
    /\ \E i \in Validated :
         /\ stack[i].kind = "helm.v4.Chart"
         /\ stack[i].repositoryOpts = <<>>
         /\ HasPrefix(ChartOf(stack[i]), DOTDOTSLASH)
         /\ results[i] = <<>>

(***************************************************************************)
(* C12: under the pack of helm-v3/v4-require-oci-registry, a resource      *)
(* without repositoryOpts whose chart is a bare name (non-empty, no '/',   *)
(* none of the prefixes oci://, ./, ../, http://, https://) receives no    *)
(* violation when it is a Helm v3 release, and exactly one violation, the  *)
(* 'without OCI protocol' one, when it is a Helm v4 chart.                 *)
(***************************************************************************)
IsBareName(s) ==
    /\ s # <<>>
    /\ ~HasChar(s, "/")
    /\ ~IsOciOrLocalRef(s)
    /\ ~IsHttpRef(s)

C12_BareNameV3PassesV4Fails ==
    \A i \in Validated :
        ( /\ pack = "helm-registry"
          /\ stack[i].kind \in HelmKinds
          /\ stack[i].repositoryOpts = <<>>
          /\ IsBareName(ChartOf(stack[i])) ) =>
            IF stack[i].kind = "helm.v3.Release"
                THEN results[i] = <<>>
                ELSE /\ Len(results[i]) = 1
                     /\ IsWithoutOci(results[i][1])
                     /\ results[i][1].policy = "helm-v4-require-oci-registry"
                     /\ results[i][1].message.chart = ChartOf(stack[i])

\* the v4 chart "nginx" without repositoryOpts was reported as lacking the OCI protocol
C12_Witness ==
    \E i \in Validated :
        /\ pack = "helm-registry"
        /\ stack[i].kind = "helm.v4.Chart"
        /\ stack[i].repositoryOpts = <<>>
        /\ ChartOf(stack[i]) = NGINX
        /\ Len(results[i]) = 1
        /\ IsWithoutOci(results[i][1])

(***************************************************************************)
(* Vocabulary of the container properties: what one container is expected  *)
(* to be reported for, read from the container alone.                      *)
(***************************************************************************)
CapabilityReport(name, cap) ==
    [ rule |-> "capability", container |-> name, capability |-> <<cap>>, image |-> <<>> ]

TagReport(rule, name, image) ==
    [ rule |-> rule, container |-> name, capability |-> <<>>, image |-> image ]

\* a reported violation of a workload, reduced to rule, container and subject
Reported(v) ==
    IF IsCapabilityViolation(v)
        THEN CapabilityReport(v.message.container, v.message.capability)
        ELSE TagReport(IF IsMissingTag(v) THEN "missing tag" ELSE "mutable tag",
                       v.message.container, v.message.image)

ReportedSeq(vs) == [ k \in 1..Len(vs) |-> Reported(vs[k]) ]

ExpectedCapability(c) ==
    LET bad == SelectSeq(AddListOf(c), LAMBDA cap : cap \notin AllowedNames)
    IN  [ k \in 1..Len(bad) |-> CapabilityReport(c.name, bad[k]) ]

ExpectedTag(c) ==
    IF ImageOf(c) = <<>> THEN <<>>
    ELSE IF ~HasChar(ImageOf(c), ":") THEN <<TagReport("missing tag", c.name, ImageOf(c))>>
    ELSE IF HasSuffix(ImageOf(c), LATEST) THEN <<TagReport("mutable tag", c.name, ImageOf(c))>>
    ELSE <<>>

CapabilityPolicyOf(kind) ==
    CASE kind = "Pod"         -> "disallow-capabilities"
      [] kind = "Deployment"  -> "disallow-capabilities-deployment"
      [] kind = "StatefulSet" -> "disallow-capabilities-statefulset"
      [] kind = "Job"         -> "disallow-capabilities-job"

TagPolicyOf(kind) ==
    CASE kind = "Pod"         -> "disallow-latest-tag"
      [] kind = "Deployment"  -> "disallow-latest-tag-deployment"
      [] kind = "StatefulSet" -> "disallow-latest-tag-statefulset"
      [] kind = "Job"         -> "disallow-latest-tag-job"

(***************************************************************************)
(* C13: for a validated Pod, Deployment, StatefulSet or Job that holds one *)
(* container in all, whichever of containers, initContainers and           *)
(* ephemeralContainers holds it, the violations are those the container    *)
(* alone calls for: its offending capabilities, reported by the capability *)
(* rule of the kind, followed by its tag violation, reported by the tag    *)
(* rule of the kind.  A container that breaks both rules is reported by    *)
(* both.                                                                   *)
(***************************************************************************)
C13_EveryListUnderBothRules ==
    \A i \in Validated :
        (stack[i].kind \in WorkloadKinds /\ Len(ContainersOf(stack[i])) = 1) =>
            LET c == ContainersOf(stack[i])[1] IN
                /\ ReportedSeq(results[i]) = ExpectedCapability(c) \o ExpectedTag(c)
                /\ \A k \in 1..Len(results[i]) :
                     results[i][k].policy =
                        IF IsCapabilityViolation(results[i][k])
                            THEN CapabilityPolicyOf(stack[i].kind)
                            ELSE TagPolicyOf(stack[i].kind)

\* a Job whose only container is an ephemeral one that breaks both rules
C13_Witness ==
    \E i \in Validated :
        /\ stack[i].kind = "Job"
        /\ PodSpecOf(stack[i]) # <<>>
        /\ PodSpecOf(stack[i])[1].containers = <<>>
        /\ PodSpecOf(stack[i])[1].initContainers = <<>>
        /\ Len(ContainersOf(stack[i])) = 1
        /\ ContainersOf(stack[i])[1].name = "web"
        /\ Len(results[i]) = 3
        /\ IsCapabilityViolation(results[i][1])
        /\ IsCapabilityViolation(results[i][2])
        /\ IsLatestTag(results[i][3])

(***************************************************************************)
(* The tag of an image reference [registry[:port]/]name[:tag][@digest]:    *)
(* a ':' after the last '/' and before the '@' of a digest.                *)
(***************************************************************************)
LastSlash(s) ==
    IF HasChar(s, "/") THEN CHOOSE k \in 1..Len(s) : s[k] = "/" /\ \A n \in (k+1)..Len(s) : s[n] # "/"
    ELSE 0

DigestAt(s) ==
    IF HasChar(s, "@") THEN CHOOSE k \in 1..Len(s) : s[k] = "@" /\ \A n \in 1..(k-1) : s[n] # "@"
    ELSE Len(s) + 1

HasTag(s) == \E k \in (LastSlash(s) + 1)..(DigestAt(s) - 1) : s[k] = ":"

(***************************************************************************)
(* C14: a validated workload with one container whose image is non-empty   *)
(* and has no tag receives exactly one tag violation, the 'missing tag'    *)
(* one, also when the image has a ':' in a registry port or in a digest.   *)
(* checkImageTags takes any ':' for a tag and reports nothing for          *)
(* "reg:5000/nginx".                                                       *)
(***************************************************************************)
C14_UntaggedImageAlwaysReported ==
    \A i \in Validated :
        ( /\ stack[i].kind \in WorkloadKinds
          /\ Len(ContainersOf(stack[i])) = 1
          /\ ImageOf(ContainersOf(stack[i])[1]) # <<>>
          /\ ~HasTag(ImageOf(ContainersOf(stack[i])[1])) ) =>
            /\ Count(results[i], IsMissingTag) = 1
            /\ Count(results[i], IsLatestTag) = 0

(***************************************************************************)
(* C15: under the pack that registers disallow-gpu-instance-types, a       *)
(* validated compute instance receives exactly one violation, mandatory    *)
(* and naming its instance type, when instanceType is present and starts   *)
(* with "g" or "p", and no violation otherwise (instanceType absent,       *)
(* empty, or with another first character); never more than one.  A        *)
(* finished run that validated a reported instance has failed.             *)
(***************************************************************************)
InstanceTypeOf(r) == OrEmpty(r.instanceType)

IsGpuType(t) == HasPrefix(t, <<"g">>) \/ HasPrefix(t, <<"p">>)

C15_GpuPrefixOnce ==
    \A i \in Validated :
        (pack = "gpu" /\ stack[i].kind = "aws.ec2.Instance") =>
            /\ Len(results[i]) <= 1
            /\ IF stack[i].instanceType # <<>> /\ IsGpuType(InstanceTypeOf(stack[i]))
                 THEN /\ Len(results[i]) = 1
                      /\ results[i][1].policy = "disallow-gpu-instance-types"
                      /\ results[i][1].enforcementLevel = "mandatory"
                      /\ results[i][1].message.instanceType = InstanceTypeOf(stack[i])
                      /\ phase # "passed"
                 ELSE results[i] = <<>>

\* the instance type "p3" was reported once and the run failed
C15_Witness ==
    /\ pack = "gpu"
    /\ phase = "failed"
    /\ \E i \in Validated :
         /\ stack[i].kind = "aws.ec2.Instance"
         /\ InstanceTypeOf(stack[i]) = <<"p", "3">>
         /\ Len(results[i]) = 1

(***************************************************************************)
(* C16: every violation of a validated resource is reported by a rule that *)
(* the pack registers and that covers the kind of the resource; a resource *)
(* whose kind no registered rule covers receives the empty sequence.       *)
(***************************************************************************)
RulesFor(kind) ==
    CASE kind = "Service"          -> { "no-public-services" }
      [] kind \in WorkloadKinds    -> { CapabilityPolicyOf(kind), TagPolicyOf(kind) }
      [] kind = "helm.v3.Release"  -> { "helm-v3-require-oci-registry", "require-oci-helm-charts-v3" }
      [] kind = "helm.v4.Chart"    -> { "helm-v4-require-oci-registry", "require-oci-helm-charts-v4" }
      [] kind = "aws.ec2.Instance" -> { "disallow-gpu-instance-types" }
      [] OTHER                     -> {}

Registered(p) == { policies(p)[k].name : k \in 1..Len(policies(p)) }

C16_RulesRunOnTheirKindOnly ==
    \A i \in Validated :
        /\ \A k \in 1..Len(results[i]) :
             results[i][k].policy \in RulesFor(stack[i].kind) \cap Registered(pack)
        /\ RulesFor(stack[i].kind) \cap Registered(pack) = {} => results[i] = <<>>

\* a run over a ConfigMap, which no rule covers, passed with an empty report
C16_Witness ==
    /\ phase = "passed"
    /\ report = <<>>
    /\ \E i \in Validated : stack[i].kind = "ConfigMap" /\ results[i] = <<>>

(***************************************************************************)
(* C17: the violations of a validated workload are, in this order: the     *)
(* capability violations of every container, then the tag violations of    *)
(* every container; within each rule the containers are taken in the order *)
(* containers, initContainers, ephemeralContainers, each list in its own   *)
(* order.                                                                  *)
(***************************************************************************)
RECURSIVE ExpectedCapabilities(_)
ExpectedCapabilities(containers) ==
    IF containers = <<>> THEN <<>>
    ELSE ExpectedCapability(Head(containers)) \o ExpectedCapabilities(Tail(containers))

RECURSIVE ExpectedTags(_)
ExpectedTags(containers) ==
    IF containers = <<>> THEN <<>>
    ELSE ExpectedTag(Head(containers)) \o ExpectedTags(Tail(containers))

C17_RuleOrderThenListOrder ==
    \A i \in Validated :
        stack[i].kind \in WorkloadKinds =>
            ReportedSeq(results[i])
                = ExpectedCapabilities(ContainersOf(stack[i])) \o ExpectedTags(ContainersOf(stack[i]))

\* a Pod with "init" in containers and "web" in initContainers, five violations in order
C17_Witness ==
    \E i \in Validated :
        /\ stack[i].kind = "Pod"
        /\ Len(ContainersOf(stack[i])) = 2
        /\ PodSpecOf(stack[i])[1].containers # <<>>
        /\ PodSpecOf(stack[i])[1].initContainers # <<>>
        /\ ContainersOf(stack[i])[1].name = "init"
        /\ ContainersOf(stack[i])[2].name = "web"
        /\ Len(results[i]) = 5
        /\ IsCapabilityViolation(results[i][1]) /\ results[i][1].message.container = "init"
        /\ IsCapabilityViolation(results[i][2]) /\ results[i][2].message.container = "web"
        /\ IsCapabilityViolation(results[i][3]) /\ results[i][3].message.container = "web"
        /\ IsMissingTag(results[i][4]) /\ results[i][4].message.container = "init"
        /\ IsLatestTag(results[i][5]) /\ results[i][5].message.container = "web"

(***************************************************************************)
(* C18: for a validated workload with one container, the capabilities      *)
(* named by its capability violations, in order, are the entries of the    *)
(* container's add-list that are not allow-listed, in add-list order; an   *)
(* offending capability that occurs k times in the list is reported k      *)
(* times; every message names the container, the capability and the 13     *)
(* allow-listed names.                                                     *)
(***************************************************************************)
CapabilityViolations(vs) == SelectSeq(vs, IsCapabilityViolation)

C18_AddListOrderWithRepeats ==
    \A i \in Validated :
        (stack[i].kind \in WorkloadKinds /\ Len(ContainersOf(stack[i])) = 1) =>
            LET c   == ContainersOf(stack[i])[1]
                cv  == CapabilityViolations(results[i])
                bad == SelectSeq(AddListOf(c), LAMBDA cap : cap \notin AllowedNames)
            IN  /\ [ k \in 1..Len(cv) |-> cv[k].message.capability ] = bad
                /\ \A cap \in OtherNames :
                     Count(cv, LAMBDA v : v.message.capability = cap)
                        = Count(AddListOf(c), LAMBDA x : x = cap)
                /\ \A k \in 1..Len(cv) :
                     /\ cv[k].message.container = c.name
                     /\ Len(cv[k].message.allowed) = 13
                     /\ { cv[k].message.allowed[n] : n \in 1..13 } = AllowedNames

\* the add-list NET_ADMIN, ALL, NET_ADMIN was reported entry by entry, NET_ADMIN twice
C18_Witness ==
    \E i \in Validated :
        /\ stack[i].kind \in WorkloadKinds
        /\ Len(ContainersOf(stack[i])) = 1
        /\ AddListOf(ContainersOf(stack[i])[1]) = <<"NET_ADMIN", "ALL", "NET_ADMIN">>
        /\ Len(results[i]) = 3
        /\ results[i][1].message.capability = "NET_ADMIN"
        /\ results[i][2].message.capability = "ALL"
        /\ results[i][3].message.capability = "NET_ADMIN"

IsChartReferenceViolation(v) == IsDirectUrl(v) \/ IsRepositoryReference(v) \/ IsWithoutOci(v)

AddListAbsent(c) ==
    \/ c.securityContext = <<>>
    \/ c.securityContext[1].capabilities = <<>>
    \/ c.securityContext[1].capabilities[1].add = <<>>

HasAbsentPart(r) ==
    \/ PodSpecOf(r) = <<>>
    \/ PodSpecOf(r)[1].containers = <<>>
    \/ PodSpecOf(r)[1].initContainers = <<>>
    \/ PodSpecOf(r)[1].ephemeralContainers = <<>>
    \/ \E k \in 1..Len(ContainersOf(r)) : AddListAbsent(ContainersOf(r)[k])

C20_AbsentPartsAreSkipped ==
    \A i \in Validated :
        (stack[i].kind \in WorkloadKinds /\ HasAbsentPart(stack[i])) =>
            LET cs == ContainersOf(stack[i]) IN
                /\ PodSpecOf(stack[i]) = <<>> => results[i] = <<>>
                /\ Count(results[i], IsCapabilityViolation) = OffendingEntries(cs)
                /\ Len(results[i]) = OffendingEntries(cs) + Len(ExpectedTags(cs))
                /\ \A k \in 1..Len(results[i]) :
                     IsCapabilityViolation(results[i][k]) =>
                        \E n \in 1..Len(cs) :
                            /\ cs[n].name = results[i][k].message.container
                            /\ ~AddListAbsent(cs[n])

\* a Pod without containers, with "debug" (no image, no securityContext) before "web"
\* in initContainers: the three violations of "web" were still reported
C20_Witness ==
    \E i \in Validated :
        /\ stack[i].kind = "Pod"
        /\ PodSpecOf(stack[i]) # <<>>
        /\ PodSpecOf(stack[i])[1].containers = <<>>
        /\ PodSpecOf(stack[i])[1].initContainers # <<>>
        /\ Len(ContainersOf(stack[i])) = 2
        /\ ContainersOf(stack[i])[1].name = "debug"
        /\ AddListAbsent(ContainersOf(stack[i])[1])
        /\ ContainersOf(stack[i])[2].name = "web"
        /\ Len(results[i]) = 3
        /\ \A k \in 1..3 : results[i][k].message.container = "web"

(***************************************************************************)
(* C21: in every state of every run, whatever the order in which the       *)
(* resources of the stack were validated and whichever are still pending,  *)
(* the violations of a validated resource are those of the pack applied to *)
(* that resource alone; and a finished run has failed exactly when the     *)
(* pack applied to some resource of the stack, taken alone, reports a      *)
(* mandatory violation.                                                    *)
(***************************************************************************)
HasMandatory(vs) == \E k \in 1..Len(vs) : vs[k].enforcementLevel = "mandatory"

ChartClasses(s) ==
    (IF HasPrefix(s, OCI) THEN {"oci"} ELSE {})
    \cup (IF IsHttpRef(s) THEN {"url"} ELSE {})
    \cup (IF HasPrefix(s, DOTSLASH) \/ HasPrefix(s, DOTDOTSLASH) THEN {"local"} ELSE {})
    \cup (IF ~HasPrefix(s, OCI) /\ ~IsHttpRef(s)
             /\ ~HasPrefix(s, DOTSLASH) /\ ~HasPrefix(s, DOTDOTSLASH) THEN {"name"} ELSE {})

C24_FourClasses ==
    \A i \in Validated :
        ( /\ pack = "helm-registry"
          /\ stack[i].kind = "helm.v4.Chart"
          /\ stack[i].repositoryOpts = <<>>
          /\ ChartOf(stack[i]) # <<>> ) =>
            LET classes == ChartClasses(ChartOf(stack[i])) IN
                /\ Cardinality(classes) = 1
                /\ results[i] = <<>> <=> classes \subseteq {"oci", "local"}
                /\ classes = {"url"} => (Len(results[i]) = 1 /\ IsDirectUrl(results[i][1]))
                /\ classes = {"name"} =>
                     /\ Len(results[i]) = 1
                     /\ IsRepositoryReference(results[i][1]) \/ IsWithoutOci(results[i][1])

\* the chart "ftp://nginx", of class name, was reported once
C24_Witness ==
    \E i \in Validated :
        /\ pack = "helm-registry"
        /\ stack[i].kind = "helm.v4.Chart"
        /\ stack[i].repositoryOpts = <<>>
        /\ ChartOf(stack[i]) = FTP \o NGINX
        /\ ChartClasses(ChartOf(stack[i])) = {"name"}
        /\ Len(results[i]) = 1
        /\ IsRepositoryReference(results[i][1])

(***************************************************************************)
(* C25: the messages of a validated Deployment, StatefulSet or Job are the *)
(* capability messages followed by the tag messages that the two Pod rules *)
(* give for a Pod whose spec is the workload's spec.template.spec, the     *)
(* capability ones reported by the capability rule of the kind and the tag *)
(* ones by its tag rule.                                                   *)
(***************************************************************************)
Messages(vs) == [ k \in 1..Len(vs) |-> vs[k].message ]

AsPod(r) == [ kind |-> "Pod", spec |-> PodSpecOf(r) ]

OfPolicy(vs, name) == SelectSeq(vs, LAMBDA v : v.policy = name)

C25_PerKindCopiesAgree ==
    \A i \in Validated :
        stack[i].kind \in ControllerKinds =>
            /\ Messages(OfPolicy(results[i], CapabilityPolicyOf(stack[i].kind)))
                 = disallow_capabilities(AsPod(stack[i]))
            /\ Messages(OfPolicy(results[i], TagPolicyOf(stack[i].kind)))
                 = disallow_latest_tag(AsPod(stack[i]))
            /\ Messages(results[i])
                 = disallow_capabilities(AsPod(stack[i])) \o disallow_latest_tag(AsPod(stack[i]))

\* a Job with "init" in initContainers and "web" in ephemeralContainers: the five
\* messages of the Pod rules
C25_Witness ==
    \E i \in Validated :
        /\ stack[i].kind = "Job"
        /\ PodSpecOf(stack[i]) # <<>>
        /\ PodSpecOf(stack[i])[1].initContainers # <<>>
        /\ PodSpecOf(stack[i])[1].ephemeralContainers # <<>>
        /\ Len(ContainersOf(stack[i])) = 2
        /\ ContainersOf(stack[i])[1].name = "init"
        /\ ContainersOf(stack[i])[2].name = "web"
        /\ Len(results[i]) = 5
        /\ Len(disallow_capabilities(AsPod(stack[i]))) = 3
        /\ Len(disallow_latest_tag(AsPod(stack[i]))) = 2

(***************************************************************************)
(* C26: in a validated workload with a container whose image is absent or  *)
(* the empty string, no tag violation names such a container, and the tag  *)
(* violations are exactly those of the containers that have a non-empty    *)
(* image, before and after it in the lists.                                *)
(***************************************************************************)
Imageless(c) == ImageOf(c) = <<>>

IsTagViolation(v) == IsMissingTag(v) \/ IsLatestTag(v)

C26_ImagelessContainerSkipped ==
    \A i \in Validated :
        ( /\ stack[i].kind \in WorkloadKinds
          /\ \E n \in 1..Len(ContainersOf(stack[i])) : Imageless(ContainersOf(stack[i])[n]) ) =>
            LET cs     == ContainersOf(stack[i])
                others == SelectSeq(cs, LAMBDA c : ~Imageless(c))
                tagged == SelectSeq(results[i], IsTagViolation)
            IN  /\ ReportedSeq(tagged) = ExpectedTags(others)
                /\ \A k \in 1..Len(tagged) :
                     \E n \in 1..Len(others) : others[n].name = tagged[k].message.container

\* "sidecar", with the empty string for image, precedes "web" in containers:
\* "web" alone received a tag violation
C26_Witness ==
    \E i \in Validated :
        /\ stack[i].kind = "Pod"
        /\ PodSpecOf(stack[i]) # <<>>
        /\ PodSpecOf(stack[i])[1].containers # <<>>
        /\ Len(PodSpecOf(stack[i])[1].containers[1]) = 2
        /\ PodSpecOf(stack[i])[1].containers[1][1].image = <<<<>>>>
        /\ PodSpecOf(stack[i])[1].containers[1][2].name = "web"
        /\ Count(results[i], IsTagViolation) = 1
        /\ results[i][Len(results[i])].message.container = "web"
        /\ IsLatestTag(results[i][Len(results[i])])

(***************************************************************************)
(* C27: over every step of a run, a blocked run stays blocked and a failed *)
(* run stays failed; the report only grows at its end; the violations of   *)
(* an already validated resource do not change; and after the step the run *)
(* is blocked, and has not passed, whenever the report holds a mandatory   *)
(* violation.                                                              *)
(***************************************************************************)
IsPrefixOf(s, t) == Len(s) <= Len(t) /\ \A k \in 1..Len(s) : s[k] = t[k]

C27_VerdictMonotone ==
    [][ /\ blocked => blocked'
        /\ phase = "failed" => phase' = "failed"
        /\ IsPrefixOf(report, report')
        /\ \A i \in Validated : results'[i] = results[i]
        /\ HasMandatory(report') => (blocked' /\ phase' # "passed") ]_vars

\* the LoadBalancer Service was validated first, the Pod after it: the run failed
\* and the report holds the four violations
C27_Witness ==
    /\ phase = "failed"
    /\ Len(stack) = 2
    /\ stack[1].kind = "Service" /\ stack[2].kind = "Pod"
    /\ Len(report) = 4
    /\ report[1].enforcementLevel = "mandatory"
    /\ \A k \in 2..4 : report[k].enforcementLevel = "advisory"

DropListOf(c) ==
    IF c.securityContext = <<>> THEN <<>>
    ELSE IF c.securityContext[1].capabilities = <<>> THEN <<>>
    ELSE OrEmpty(c.securityContext[1].capabilities[1].drop)

NamesCapability(vs, cap) ==
    \E k \in 1..Len(vs) : IsCapabilityViolation(vs[k]) /\ vs[k].message.capability = cap

C29_ExactMatchOnAddOnly ==
    \A i \in Validated :
        (stack[i].kind \in WorkloadKinds /\ Len(ContainersOf(stack[i])) = 1) =>
            LET c == ContainersOf(stack[i])[1] IN
                /\ \A cap \in AllowedNames \cup OtherNames :
                     NamesCapability(results[i], cap)
                        <=> (Occurs(AddListOf(c), cap) /\ cap \notin AllowedNames)
                /\ \A cap \in { "chown", "CAP_CHOWN", "ALL" } :
                     Occurs(AddListOf(c), cap) => NamesCapability(results[i], cap)
                /\ Count(results[i], IsCapabilityViolation) = Offending(c)

\* a container adds NET_ADMIN and drops ALL and NET_ADMIN: NET_ADMIN alone is reported
C29_Witness ==
    \E i \in Validated :
        /\ stack[i].kind \in WorkloadKinds
        /\ Len(ContainersOf(stack[i])) = 1
        /\ AddListOf(ContainersOf(stack[i])[1]) = <<"NET_ADMIN">>
        /\ DropListOf(ContainersOf(stack[i])[1]) = <<"ALL", "NET_ADMIN">>
        /\ Count(results[i], IsCapabilityViolation) = 1
        /\ NamesCapability(results[i], "NET_ADMIN")
        /\ ~NamesCapability(results[i], "ALL")

C23_EvaluationTerminates ==
    /\ <>(phase # "running")
    /\ [](phase # "running" => results[1] = Evaluate(pack, stack[1]))

\* the evaluation of a Pod with three containers ended after its ten iterations,
\* with five violations
C23_Witness ==
    /\ phase = "passed"
    /\ stack[1].kind = "Pod"
    /\ Len(ContainersOf(stack[1])) = 3
    /\ Len(Iterations(pack, stack[1])) = 10
    /\ pending = {}
    /\ Len(results[1]) = 5

====
